---- MODULE Spec2Model ----
(***************************************************************************)
(* shorty: a URL shortener.  The model covers the short-code generator and *)
(* mapping store (createShortURL, getLongURL, shortURLExists,              *)
(* randomString), the visit-count aggregator (handleRedirect's             *)
(* visitCountCache increment, writeCacheToDB and the ticker goroutine),    *)
(* and what the two handlers answer: handleCreate's checks of the request  *)
(* and its status code, handleRedirect's status code and Location.         *)
(*                                                                         *)
(* Every database call is one atomic step (SQLite serialises statements);  *)
(* goroutines interleave between database calls and between the accesses   *)
(* to the unsynchronised visitCountCache map.                              *)
(***************************************************************************)
EXTENDS Integers, Sequences, FiniteSets, TLC

(***************************************************************************)
(* Bounds of the model.                                                    *)
(***************************************************************************)
\* cfg.ShortURL.Length: the configured short-code length
Length == 2
\* random bytes are drawn from 0..MaxByte (crypto/rand yields 0..255)
MaxByte == 2
\* redirect requests served in one run
MaxVisits == 3
\* longest string asked of randomString on its own
MaxLen == 3
\* longest charset a configuration file is given
MaxCharsetLen == 257

\* cfg.ShortURL.Charset: the configured alphabet, one character per position
Charset == <<"a", "b">>
\* the long URLs clients submit
URLs == {"u1", "u2"}
\* the request goroutines net/http runs handlers on
Handlers == {"h1", "h2"}

\* error values: nil, sql.ErrNoRows, a primary-key violation, any other
\* storage failure
Nil == "nil"
ErrNoRows == "sql.ErrNoRows"
ErrConstraint == "constraint"
ErrStorage == "storage"

NoCode == << >>
NoURL == ""

\* a create request as handleCreate reads it: r.Method, the Content-Type
\* header and r.FormValue("url")
FormContentType == "application/x-www-form-urlencoded"
Methods == {"POST", "GET"}
ContentTypes == {FormContentType, "application/json"}
FormValues == URLs \cup {"", "not-a-valid-url", "u-long", "u-wide"}
Requests == [method : Methods, contentType : ContentTypes, url : FormValues]
NoRequest == [method |-> "", contentType |-> "", url |-> ""]

\* if len(longURL) > 2048
MaxURLLen == 2048

\* the text of each form value, as far as the handler looks at it: its
\* scheme, whether what follows the scheme starts with "/", its length in
\* bytes (what len yields) and in characters.  "u2" is as long as a URL may
\* be, "u-long" one byte longer, "u-wide" is made of two-byte characters.
Shape(v) ==
    CASE v = "" ->
            [scheme |-> "", slash |-> FALSE, len |-> 0, chars |-> 0]
      [] v = "not-a-valid-url" ->
            [scheme |-> "", slash |-> FALSE, len |-> 15, chars |-> 15]
      [] v = "u1" ->
            [scheme |-> "https", slash |-> TRUE, len |-> 19, chars |-> 19]
      [] v = "u2" ->
            [scheme |-> "https", slash |-> TRUE, len |-> MaxURLLen, chars |-> MaxURLLen]
      [] v = "u-long" ->
            [scheme |-> "https", slash |-> TRUE, len |-> MaxURLLen + 1,
             chars |-> MaxURLLen + 1]
      [] v = "u-wide" ->
            [scheme |-> "https", slash |-> TRUE, len |-> MaxURLLen + 2,
             chars |-> 1029]

\* url.ParseRequestURI: the empty string is refused, and so is a string
\* that is neither an absolute URI (it has a scheme) nor an absolute path
ParseRequestURI(v) ==
    IF Shape(v).len = 0 THEN "empty url"
    ELSE IF Shape(v).scheme = "" /\ ~Shape(v).slash THEN "invalid URI for request"
    ELSE Nil

\* the request a browser form sends for long URL u
FormRequest(u) == [method |-> "POST", contentType |-> FormContentType, url |-> u]

VARIABLES
    rows,             \* table url_mapping, in rowid order
    visitCountCache,  \* map[string]int: pending visits per short code
    pc,               \* per request goroutine: where its handler stands
    hv,               \* per request goroutine: the handler's locals and result
    fl,               \* the ticker goroutine running writeCacheToDB
    flushLog,         \* UPDATE statements issued by the current/last flush
    mark,             \* what the previous writeCacheToDB left behind
    visits,           \* completed visitCountCache[c]++ per short code
    returned,         \* <<short code, long URL>> pairs createShortURL returned
    crashed           \* the runtime aborted the process (concurrent map access)

vars ==
    <<rows, visitCountCache, pc, hv, fl, flushLog, mark, visits, returned, crashed>>

(***************************************************************************)
(* Pure helpers.                                                           *)
(***************************************************************************)
Range(s) == {s[i] : i \in DOMAIN s}

\* the byte sequences rand.Read may fill a buffer of the given length with
ByteSeqs(length) == [1..length -> 0..MaxByte]

\* byte(len(cfg.ShortURL.Charset)): the conversion keeps the low 8 bits
CharsetLenByte == Len(Charset) % 256

\* mutant: the loop stops one byte early
randomStringShort(length, b) ==
    [i \in 1..(length - 1) |-> Charset[(b[i] % CharsetLenByte) + 1]]

\* mutant: the index is taken one character further along the charset
randomStringShifted(length, b) ==
    [i \in 1..length |-> Charset[((b[i] + 1) % CharsetLenByte) + 1]]

\* randomString: b[i] = Charset[b[i] % byte(len(Charset))]
randomString(length, b) ==
    [i \in 1..length |-> Charset[(b[i] % CharsetLenByte) + 1]]

\* every short code randomString can produce
Codes == {randomString(Length, b) : b \in ByteSeqs(Length)}

(***************************************************************************)
(* The store: table url_mapping as a sequence of rows in rowid order.      *)
(***************************************************************************)
RowCodes == {rows[i].short_url : i \in DOMAIN rows}

RowsOfURL(u) == {i \in DOMAIN rows : rows[i].long_url = u}

RowOfCode(c) == CHOOSE i \in DOMAIN rows : rows[i].short_url = c

\* mutant: no row is ever found for a long URL (no dedup lookup)
SelectShortByLongNever(u) == [val |-> NoCode, err |-> ErrNoRows]

\* mutant: the lookup takes the newest row (ORDER BY rowid DESC)
SelectShortByLongNewest(u) ==
    IF RowsOfURL(u) = {}
    THEN [val |-> NoCode, err |-> ErrNoRows]
    ELSE LET i == CHOOSE j \in RowsOfURL(u) : \A k \in RowsOfURL(u) : j >= k
         IN  [val |-> rows[i].short_url, err |-> Nil]

\* SELECT short_url FROM url_mapping WHERE long_url = ? ORDER BY rowid ASC LIMIT 1
SelectShortByLong(u) ==
    IF RowsOfURL(u) = {}
    THEN [val |-> NoCode, err |-> ErrNoRows]
    ELSE LET i == CHOOSE j \in RowsOfURL(u) : \A k \in RowsOfURL(u) : j <= k
         IN  [val |-> rows[i].short_url, err |-> Nil]

\* mutant: the WHERE clause is lost, the first row answers every known code
SelectLongByShortFirstRow(c) ==
    IF c \in RowCodes
    THEN [val |-> rows[1].long_url, err |-> Nil]
    ELSE [val |-> NoURL, err |-> ErrNoRows]

\* mutant: a missing row is reported as success with an empty URL
SelectLongByShortNoError(c) ==
    IF c \in RowCodes
    THEN [val |-> rows[RowOfCode(c)].long_url, err |-> Nil]
    ELSE [val |-> NoURL, err |-> Nil]

\* SELECT long_url FROM url_mapping WHERE short_url = ?
SelectLongByShort(c) ==
    IF c \in RowCodes
    THEN [val |-> rows[RowOfCode(c)].long_url, err |-> Nil]
    ELSE [val |-> NoURL, err |-> ErrNoRows]

\* SELECT EXISTS(SELECT 1 FROM url_mapping WHERE short_url=?)
SelectExists(c) == c \in RowCodes

\* mutant: the table has no primary key
InsertAllowedAlways(c) == TRUE

\* short_url TEXT PRIMARY KEY: an INSERT of a present key is refused
InsertAllowed(c) == c \notin RowCodes

\* datetime('now') as the INSERT reads it: time is counted in rows inserted,
\* so every row of this run gets a later timestamp than the rows before it
Now == Len(rows) + 1

\* mutant: long_url is a unique key and the INSERT replaces the row that holds it
InsertRowReplacesURL(c, u) ==
    Append(SelectSeq(rows, LAMBDA r : r.long_url # u),
           [short_url |-> c, long_url |-> u, visit_count |-> 0, created_at |-> Now])

\* INSERT INTO url_mapping (short_url, long_url, created_at) VALUES (?, ?,
\* datetime('now')): visit_count DEFAULT 0
InsertRow(c, u) ==
    Append(rows, [short_url |-> c, long_url |-> u, visit_count |-> 0,
                  created_at |-> Now])

\* mutant: SET visit_count = ? (the count replaces the total)
UpdateVisitCountOverwrites(c, n) ==
    [i \in DOMAIN rows |->
        IF rows[i].short_url = c
        THEN [rows[i] EXCEPT !.visit_count = n]
        ELSE rows[i]]

\* mutant: the UPDATE also stamps the row with the current time
UpdateVisitCountTouches(c, n) ==
    [i \in DOMAIN rows |->
        IF rows[i].short_url = c
        THEN [rows[i] EXCEPT !.visit_count = @ + n, !.created_at = Now]
        ELSE rows[i]]

\* mutant: the UPDATE is an upsert, a missing row is created with the count
UpdateVisitCountUpserts(c, n) ==
    IF c \in RowCodes
    THEN [i \in DOMAIN rows |->
            IF rows[i].short_url = c
            THEN [rows[i] EXCEPT !.visit_count = @ + n]
            ELSE rows[i]]
    ELSE Append(rows, [short_url |-> c, long_url |-> NoURL,
                       visit_count |-> n, created_at |-> Now])

\* UPDATE url_mapping SET visit_count = visit_count + ? WHERE short_url = ?
UpdateVisitCount(c, n) ==
    [i \in DOMAIN rows |->
        IF rows[i].short_url = c
        THEN [rows[i] EXCEPT !.visit_count = @ + n]
        ELSE rows[i]]

\* persisted visit_count of a code (0 when it has no row)
VisitCount(c) == IF c \in RowCodes THEN rows[RowOfCode(c)].visit_count ELSE 0

\* pending count of a code: a missing map key reads as 0
Pending(c) == IF c \in DOMAIN visitCountCache THEN visitCountCache[c] ELSE 0

RECURSIVE SumOver(_, _)
SumOver(f, S) ==
    IF S = {} THEN 0
    ELSE LET x == CHOOSE y \in S : TRUE IN f[x] + SumOver(f, S \ {x})

\* a database call either runs the statement or fails (connection, I/O)
Outcomes(r) == {r, [val |-> r.val, err |-> ErrStorage]}

(***************************************************************************)
(* Initial state: a fresh database, an empty cache, no request in flight.  *)
(***************************************************************************)
\* a handler's locals: the request's longURL or shortURL (the candidate code
\* in createShortURL), the count read from the cache, what the core function
\* returned (ret, err), the table as it was when createShortURL was called
\* and whether it held a row for longURL then, and the rows this call inserted
\* the route served and the request, and once the handler has decided its
\* response, the status code and the Location header; for a call of
\* randomString on its own, its argument and the bytes rand.Read gave it;
\* for handleStats, the Stats value getStats returned; for a call of
\* randomString under another configuration, cfg.ShortURL.Charset
IdleLocals ==
    [op |-> "none", longURL |-> NoURL, shortURL |-> NoCode, tmp |-> 0,
     ret |-> NoCode, err |-> Nil, had |-> FALSE, rows0 |-> << >>, inserted |-> 0,
     route |-> "", req |-> NoRequest, status |-> 0, location |-> NoURL,
     length |-> 0, b |-> << >>, stats |-> << >>, charset |-> << >>]

CreateLocals(u) ==
    [IdleLocals EXCEPT !.op = "create", !.longURL = u, !.rows0 = rows,
                       !.had = (RowsOfURL(u) # {}),
                       !.route = "/create", !.req = FormRequest(u)]

\* the flush's locals: the entries the range has yet to produce, the entry in
\* hand, and the visit_count of every row when the flush began
IdleFlush ==
    [pc |-> "idle", todo |-> {}, key |-> NoCode, count |-> 0, vc0 |-> << >>]

\* at the end of a flush: the visits recorded so far and the count left pending
Snapshot == [c \in Codes |-> [n |-> visits[c], pend |-> Pending(c)]]

Init ==
    /\ rows = << >>
    /\ visitCountCache = [c \in {} |-> 0]
    /\ pc = [h \in Handlers |-> "idle"]
    /\ hv = [h \in Handlers |-> IdleLocals]
    /\ fl = IdleFlush
    /\ flushLog = << >>
    /\ visits = [c \in Codes |-> 0]
    /\ mark = [c \in Codes |-> [n |-> 0, pend |-> 0]]
    /\ returned = {}
    /\ crashed = FALSE

\* a database file left by an earlier run ("Database loaded with %d links"):
\* one row per long URL, nothing counted yet, stamped before this run began
LoadedRows ==
    <<[short_url |-> randomString(Length, [i \in 1..Length |-> 0]),
       long_url |-> "u1", visit_count |-> 0, created_at |-> 0],
      [short_url |-> randomString(Length, [i \in 1..Length |-> 1]),
       long_url |-> "u2", visit_count |-> 0, created_at |-> 0]>>

InitLoaded ==
    /\ rows = LoadedRows
    /\ visitCountCache = [c \in {} |-> 0]
    /\ pc = [h \in Handlers |-> "idle"]
    /\ hv = [h \in Handlers |-> IdleLocals]
    /\ fl = IdleFlush
    /\ flushLog = << >>
    /\ visits = [c \in Codes |-> 0]
    /\ mark = [c \in Codes |-> [n |-> 0, pend |-> 0]]
    /\ returned = {}
    /\ crashed = FALSE

(***************************************************************************)
(* The handlers' responses.                                                *)
(***************************************************************************)
\* handleCreate once createShortURL has returned: an error is answered with
\* 500; otherwise the page is rendered (200) unless the template fails to
\* load or to execute (500)
handleCreateStatus(err) == IF err # Nil THEN {500} ELSE {200, 500}

\* mutant: a failed lookup is answered with the looked-up (empty) URL
handleRedirectLocationNoHome(longURL, err) == longURL

\* handleRedirect's two http.Redirect calls: any error of getLongURL sends
\* the client to "/", a found URL sends it there; both with 302 Found
handleRedirectLocation(longURL, err) == IF err # Nil THEN "/" ELSE longURL

\* the locals v of a handler whose core call has returned, with the
\* response the handler decides on
Replies(v) ==
    IF v.route = "/create"
    THEN {[v EXCEPT !.status = s] : s \in handleCreateStatus(v.err)}
    ELSE {[v EXCEPT !.status = 302,
                    !.location = handleRedirectLocation(v.ret, v.err)]}

(***************************************************************************)
(* createShortURL, called by handleCreate on a request goroutine.          *)
(***************************************************************************)
\* the dedup lookup, v being the locals the call starts with: an existing
\* short URL is returned at once, an error other than sql.ErrNoRows is
\* returned, and otherwise the loop is entered
CreateCallFrom(h, v) ==
    /\ ~crashed
    /\ pc[h] = "idle"
    /\ \E r \in Outcomes(SelectShortByLong(v.longURL)) :
          IF r.err = Nil
          THEN /\ pc' = [pc EXCEPT ![h] = "respond"]
               /\ \E w \in Replies([v EXCEPT !.ret = r.val]) :
                      hv' = [hv EXCEPT ![h] = w]
               /\ returned' = returned \cup {<<r.val, v.longURL>>}
          ELSE IF r.err # ErrNoRows
          THEN /\ pc' = [pc EXCEPT ![h] = "respond"]
               /\ \E w \in Replies([v EXCEPT !.err = r.err]) :
                      hv' = [hv EXCEPT ![h] = w]
               /\ UNCHANGED returned
          ELSE /\ pc' = [pc EXCEPT ![h] = "gen"]
               /\ hv' = [hv EXCEPT ![h] = v]
               /\ UNCHANGED returned
    /\ UNCHANGED <<rows, visitCountCache, fl, flushLog, mark, visits, crashed>>

\* createShortURL(u), called for the form a browser posts
CreateCall(h, u) == CreateCallFrom(h, CreateLocals(u))

\* the handler answers without calling createShortURL
Reject(h, req, status, location) ==
    /\ ~crashed
    /\ pc[h] = "idle"
    /\ pc' = [pc EXCEPT ![h] = "respond"]
    /\ hv' = [hv EXCEPT ![h] =
                [IdleLocals EXCEPT !.op = "rejected", !.route = "/create",
                                   !.req = req, !.status = status,
                                   !.location = location]]
    /\ UNCHANGED <<rows, visitCountCache, fl, flushLog, mark, visits, returned, crashed>>

\* mutant: the length of the URL is not checked
handleCreateAnyLength(h, req) ==
    IF req.method # "POST"
    THEN Reject(h, req, 302, "/")
    ELSE IF req.contentType # FormContentType
    THEN Reject(h, req, 400, NoURL)
    ELSE IF ParseRequestURI(req.url) # Nil
    THEN Reject(h, req, 400, NoURL)
    ELSE CreateCallFrom(h, [CreateLocals(req.url) EXCEPT !.req = req])

\* handleCreate: a request that is not a POST is redirected to "/"; a wrong
\* Content-Type, a URL that does not parse and a URL of more than 2048
\* characters are answered with 400; otherwise createShortURL is called
handleCreate(h, req) ==
    IF req.method # "POST"
    THEN Reject(h, req, 302, "/")
    ELSE IF req.contentType # FormContentType
    THEN Reject(h, req, 400, NoURL)
    ELSE IF ParseRequestURI(req.url) # Nil
    THEN Reject(h, req, 400, NoURL)
    ELSE IF Shape(req.url).len > MaxURLLen
    THEN Reject(h, req, 400, NoURL)
    ELSE CreateCallFrom(h, [CreateLocals(req.url) EXCEPT !.req = req])

\* mutant: the loop gives up on a taken candidate and reports the table
\* exhausted
CreateGenGivesUp(h) ==
    /\ ~crashed
    /\ pc[h] = "gen"
    /\ \E b \in ByteSeqs(Length) :
        \E r \in Outcomes([val |-> SelectExists(randomString(Length, b)), err |-> Nil]) :
          IF r.err # Nil
          THEN /\ pc' = [pc EXCEPT ![h] = "respond"]
               /\ \E w \in Replies([hv[h] EXCEPT !.ret = NoCode, !.err = r.err]) :
                      hv' = [hv EXCEPT ![h] = w]
          ELSE IF r.val
          THEN /\ pc' = [pc EXCEPT ![h] = "respond"]
               /\ \E w \in Replies([hv[h] EXCEPT !.ret = NoCode, !.err = ErrConstraint]) :
                      hv' = [hv EXCEPT ![h] = w]
          ELSE /\ pc' = [pc EXCEPT ![h] = "insert"]
               /\ hv' = [hv EXCEPT ![h].shortURL = randomString(Length, b)]
    /\ UNCHANGED <<rows, visitCountCache, fl, flushLog, mark, visits, returned, crashed>>

\* mutant: the generator is seeded anew on every call and yields the same
\* bytes each time
CreateGenSameSeed(h) ==
    /\ ~crashed
    /\ pc[h] = "gen"
    /\ \E b \in {[i \in 1..Length |-> 0]} :
        \E r \in Outcomes([val |-> SelectExists(randomString(Length, b)), err |-> Nil]) :
          IF r.err # Nil
          THEN /\ pc' = [pc EXCEPT ![h] = "respond"]
               /\ \E w \in Replies([hv[h] EXCEPT !.ret = NoCode, !.err = r.err]) :
                      hv' = [hv EXCEPT ![h] = w]
          ELSE IF r.val
          THEN UNCHANGED <<pc, hv>>
          ELSE /\ pc' = [pc EXCEPT ![h] = "insert"]
               /\ hv' = [hv EXCEPT ![h].shortURL = randomString(Length, b)]
    /\ UNCHANGED <<rows, visitCountCache, fl, flushLog, mark, visits, returned, crashed>>

\* one turn of the loop: shortURL := randomString(cfg.ShortURL.Length);
\* exists, err := shortURLExists(shortURL)
CreateGen(h) ==
    /\ ~crashed
    /\ pc[h] = "gen"
    /\ \E b \in ByteSeqs(Length) :
        \E r \in Outcomes([val |-> SelectExists(randomString(Length, b)), err |-> Nil]) :
          IF r.err # Nil
          THEN /\ pc' = [pc EXCEPT ![h] = "respond"]
               /\ \E w \in Replies([hv[h] EXCEPT !.ret = NoCode, !.err = r.err]) :
                      hv' = [hv EXCEPT ![h] = w]
          ELSE IF r.val
          THEN UNCHANGED <<pc, hv>>
          ELSE /\ pc' = [pc EXCEPT ![h] = "insert"]
               /\ hv' = [hv EXCEPT ![h].shortURL = randomString(Length, b)]
    /\ UNCHANGED <<rows, visitCountCache, fl, flushLog, mark, visits, returned, crashed>>

\* mutant: a failed INSERT sends the loop round again with a new candidate
CreateInsertRetries(h) ==
    /\ ~crashed
    /\ pc[h] = "insert"
    /\ \/ /\ pc' = [pc EXCEPT ![h] = "gen"]
          /\ hv' = [hv EXCEPT ![h].ret = NoCode, ![h].err = ErrStorage]
          /\ UNCHANGED <<rows, returned>>
       \/ /\ ~InsertAllowed(hv[h].shortURL)
          /\ pc' = [pc EXCEPT ![h] = "gen"]
          /\ hv' = [hv EXCEPT ![h].ret = NoCode, ![h].err = ErrConstraint]
          /\ UNCHANGED <<rows, returned>>
       \/ /\ InsertAllowed(hv[h].shortURL)
          /\ pc' = [pc EXCEPT ![h] = "respond"]
          /\ rows' = InsertRow(hv[h].shortURL, hv[h].longURL)
          /\ \E w \in Replies([hv[h] EXCEPT !.ret = hv[h].shortURL, !.err = Nil,
                                              !.inserted = @ + 1]) :
                 hv' = [hv EXCEPT ![h] = w]
          /\ returned' = returned \cup {<<hv[h].shortURL, hv[h].longURL>>}
    /\ UNCHANGED <<visitCountCache, fl, flushLog, mark, visits, crashed>>

\* mutant: the statement is INSERT OR REPLACE, a present key is overwritten
CreateInsertReplaces(h) ==
    /\ ~crashed
    /\ pc[h] = "insert"
    /\ pc' = [pc EXCEPT ![h] = "respond"]
    /\ \/ /\ \E w \in Replies([hv[h] EXCEPT !.ret = NoCode, !.err = ErrStorage]) :
                 hv' = [hv EXCEPT ![h] = w]
          /\ UNCHANGED <<rows, returned>>
       \/ /\ ~InsertAllowed(hv[h].shortURL)
          /\ rows' = [i \in DOMAIN rows |->
                        IF rows[i].short_url = hv[h].shortURL
                        THEN [rows[i] EXCEPT !.long_url = hv[h].longURL]
                        ELSE rows[i]]
          /\ \E w \in Replies([hv[h] EXCEPT !.ret = hv[h].shortURL, !.err = Nil,
                                              !.inserted = @ + 1]) :
                 hv' = [hv EXCEPT ![h] = w]
          /\ returned' = returned \cup {<<hv[h].shortURL, hv[h].longURL>>}
       \/ /\ InsertAllowed(hv[h].shortURL)
          /\ rows' = InsertRow(hv[h].shortURL, hv[h].longURL)
          /\ \E w \in Replies([hv[h] EXCEPT !.ret = hv[h].shortURL, !.err = Nil,
                                              !.inserted = @ + 1]) :
                 hv' = [hv EXCEPT ![h] = w]
          /\ returned' = returned \cup {<<hv[h].shortURL, hv[h].longURL>>}
    /\ UNCHANGED <<visitCountCache, fl, flushLog, mark, visits, crashed>>

\* db.Exec(INSERT ...): a storage failure or a primary-key violation is
\* returned, otherwise the row is stored and the short URL returned
CreateInsert(h) ==
    /\ ~crashed
    /\ pc[h] = "insert"
    /\ pc' = [pc EXCEPT ![h] = "respond"]
    /\ \/ /\ \E w \in Replies([hv[h] EXCEPT !.ret = NoCode, !.err = ErrStorage]) :
                 hv' = [hv EXCEPT ![h] = w]
          /\ UNCHANGED <<rows, returned>>
       \/ /\ ~InsertAllowed(hv[h].shortURL)
          /\ \E w \in Replies([hv[h] EXCEPT !.ret = NoCode, !.err = ErrConstraint]) :
                 hv' = [hv EXCEPT ![h] = w]
          /\ UNCHANGED <<rows, returned>>
       \/ /\ InsertAllowed(hv[h].shortURL)
          /\ rows' = InsertRow(hv[h].shortURL, hv[h].longURL)
          /\ \E w \in Replies([hv[h] EXCEPT !.ret = hv[h].shortURL, !.err = Nil,
                                              !.inserted = @ + 1]) :
                 hv' = [hv EXCEPT ![h] = w]
          /\ returned' = returned \cup {<<hv[h].shortURL, hv[h].longURL>>}
    /\ UNCHANGED <<visitCountCache, fl, flushLog, mark, visits, crashed>>

(***************************************************************************)
(* handleRedirect, on a request goroutine: getLongURL, then                *)
(* visitCountCache[shortURL]++ with no lock held.                          *)
(***************************************************************************)
\* redirects that reached the increment, finished or not
VisitsBegun ==
    SumOver(visits, Codes)
        + Cardinality({h \in Handlers : pc[h] \in {"mapassign", "store"}})

\* mutant: only a storage failure ends the handler early, a code that was
\* not found is counted like a found one
RedirectCallCountsUnknown(h, c) ==
    /\ ~crashed
    /\ pc[h] = "idle"
    /\ VisitsBegun < MaxVisits
    /\ \E r \in Outcomes(SelectLongByShort(c)) :
          IF r.err = ErrStorage
          THEN /\ pc' = [pc EXCEPT ![h] = "respond"]
               /\ \E w \in Replies([IdleLocals EXCEPT !.op = "redirect", !.route = "/r/",
                              !.shortURL = c, !.ret = NoURL, !.err = r.err]) :
                      hv' = [hv EXCEPT ![h] = w]
          ELSE /\ pc' = [pc EXCEPT ![h] = "mapassign"]
               /\ hv' = [hv EXCEPT ![h] = [IdleLocals EXCEPT !.op = "redirect", !.route = "/r/",
                              !.shortURL = c, !.ret = r.val]]
    /\ UNCHANGED <<rows, visitCountCache, fl, flushLog, mark, visits, returned, crashed>>

\* longURL, err := getLongURL(shortURL); on any error the client is sent to "/"
RedirectCall(h, c) ==
    /\ ~crashed
    /\ pc[h] = "idle"
    /\ VisitsBegun < MaxVisits
    /\ \E r \in Outcomes(SelectLongByShort(c)) :
          IF r.err # Nil
          THEN /\ pc' = [pc EXCEPT ![h] = "respond"]
               /\ \E w \in Replies([IdleLocals EXCEPT !.op = "redirect", !.route = "/r/",
                              !.shortURL = c, !.ret = NoURL, !.err = r.err]) :
                      hv' = [hv EXCEPT ![h] = w]
          ELSE /\ pc' = [pc EXCEPT ![h] = "mapassign"]
               /\ hv' = [hv EXCEPT ![h] = [IdleLocals EXCEPT !.op = "redirect", !.route = "/r/",
                              !.shortURL = c, !.ret = r.val]]
    /\ UNCHANGED <<rows, visitCountCache, fl, flushLog, mark, visits, returned, crashed>>

\* visitCountCache[shortURL]++, first half: the map yields the entry (created
\* with 0 when missing) and its count is read.  An entry created while the
\* flush ranges over the map may or may not be produced by that range.
RedirectMapAssign(h) ==
    /\ ~crashed
    /\ pc[h] = "mapassign"
    /\ LET k == hv[h].shortURL IN
        /\ hv' = [hv EXCEPT ![h].tmp = Pending(k)]
        /\ IF k \in DOMAIN visitCountCache
           THEN UNCHANGED <<visitCountCache, fl>>
           ELSE /\ visitCountCache' = (k :> 0) @@ visitCountCache
                /\ \/ UNCHANGED fl
                   \/ /\ fl.pc # "idle"
                      /\ fl' = [fl EXCEPT !.todo = @ \cup {k}]
    /\ pc' = [pc EXCEPT ![h] = "store"]
    /\ UNCHANGED <<rows, flushLog, mark, visits, returned, crashed>>

\* mutant: the visit is also written through to the row
RedirectStoreWritesDB(h) ==
    /\ ~crashed
    /\ pc[h] = "store"
    /\ LET k == hv[h].shortURL IN
        /\ visitCountCache' = [visitCountCache EXCEPT ![k] = hv[h].tmp + 1]
        /\ visits' = [visits EXCEPT ![k] = @ + 1]
        /\ rows' = UpdateVisitCount(k, 1)
    /\ pc' = [pc EXCEPT ![h] = "respond"]
    /\ \E w \in Replies(hv[h]) : hv' = [hv EXCEPT ![h] = w]
    /\ UNCHANGED <<fl, flushLog, mark, returned, crashed>>

\* visitCountCache[shortURL]++, second half: the count read, plus one, is
\* written back; the visit is recorded
RedirectStore(h) ==
    /\ ~crashed
    /\ pc[h] = "store"
    /\ LET k == hv[h].shortURL IN
        /\ visitCountCache' = [visitCountCache EXCEPT ![k] = hv[h].tmp + 1]
        /\ visits' = [visits EXCEPT ![k] = @ + 1]
    /\ pc' = [pc EXCEPT ![h] = "respond"]
    /\ \E w \in Replies(hv[h]) : hv' = [hv EXCEPT ![h] = w]
    /\ UNCHANGED <<rows, fl, flushLog, mark, returned, crashed>>

\* the response is written, the handler returns and the request goroutine ends
Respond(h) ==
    /\ ~crashed
    /\ pc[h] = "respond"
    /\ pc' = [pc EXCEPT ![h] = "idle"]
    /\ hv' = [hv EXCEPT ![h] = IdleLocals]
    /\ UNCHANGED <<rows, visitCountCache, fl, flushLog, mark, visits, returned, crashed>>

(***************************************************************************)
(* writeCacheToDB, on the ticker goroutine started by main.                *)
(***************************************************************************)
\* the ticker fires: writeCacheToDB begins to range over visitCountCache
FlushStart ==
    /\ ~crashed
    /\ fl.pc = "idle"
    /\ fl' = [IdleFlush EXCEPT !.pc = "range", !.todo = DOMAIN visitCountCache,
                              !.vc0 = [c \in Codes |-> VisitCount(c)]]
    /\ flushLog' = << >>
    /\ UNCHANGED <<rows, visitCountCache, pc, hv, mark, visits, returned, crashed>>

\* for shortURL, count := range visitCountCache: the next entry, in any order
FlushNext ==
    /\ ~crashed
    /\ fl.pc = "range"
    /\ \E k \in fl.todo :
          fl' = [fl EXCEPT !.pc = "exec", !.key = k, !.count = visitCountCache[k],
                           !.todo = @ \ {k}]
    /\ UNCHANGED <<rows, visitCountCache, pc, hv, flushLog, mark, visits, returned, crashed>>

\* mutant: the entry is reset although its UPDATE failed
FlushExecDropsFailed ==
    /\ ~crashed
    /\ fl.pc = "exec"
    /\ \/ /\ flushLog' = Append(flushLog, [key |-> fl.key, count |-> fl.count, ok |-> FALSE])
          /\ fl' = [fl EXCEPT !.pc = "reset"]
          /\ UNCHANGED rows
       \/ /\ flushLog' = Append(flushLog, [key |-> fl.key, count |-> fl.count, ok |-> TRUE])
          /\ rows' = UpdateVisitCount(fl.key, fl.count)
          /\ fl' = [fl EXCEPT !.pc = "reset"]
    /\ UNCHANGED <<visitCountCache, pc, hv, mark, visits, returned, crashed>>

\* mutant: a failed UPDATE ends the loop (return instead of continue)
FlushExecAborts ==
    /\ ~crashed
    /\ fl.pc = "exec"
    /\ \/ /\ flushLog' = Append(flushLog, [key |-> fl.key, count |-> fl.count, ok |-> FALSE])
          /\ fl' = [fl EXCEPT !.pc = "range", !.todo = {}]
          /\ UNCHANGED rows
       \/ /\ flushLog' = Append(flushLog, [key |-> fl.key, count |-> fl.count, ok |-> TRUE])
          /\ rows' = UpdateVisitCount(fl.key, fl.count)
          /\ fl' = [fl EXCEPT !.pc = "reset"]
    /\ UNCHANGED <<visitCountCache, pc, hv, mark, visits, returned, crashed>>

\* db.Exec(UPDATE ... visit_count + ?): on an error the entry is logged and
\* skipped (continue), otherwise the count is added to the row, if any
FlushExec ==
    /\ ~crashed
    /\ fl.pc = "exec"
    /\ \/ /\ flushLog' = Append(flushLog, [key |-> fl.key, count |-> fl.count, ok |-> FALSE])
          /\ fl' = [fl EXCEPT !.pc = "range"]
          /\ UNCHANGED rows
       \/ /\ flushLog' = Append(flushLog, [key |-> fl.key, count |-> fl.count, ok |-> TRUE])
          /\ rows' = UpdateVisitCount(fl.key, fl.count)
          /\ fl' = [fl EXCEPT !.pc = "reset"]
    /\ UNCHANGED <<visitCountCache, pc, hv, mark, visits, returned, crashed>>

\* visitCountCache[shortURL] = 0
FlushReset ==
    /\ ~crashed
    /\ fl.pc = "reset"
    /\ visitCountCache' = [visitCountCache EXCEPT ![fl.key] = 0]
    /\ fl' = [fl EXCEPT !.pc = "range"]
    /\ UNCHANGED <<rows, pc, hv, flushLog, mark, visits, returned, crashed>>

\* the range is exhausted: writeCacheToDB returns
FlushReturn ==
    /\ ~crashed
    /\ fl.pc = "range"
    /\ fl.todo = {}
    /\ fl' = [fl EXCEPT !.pc = "done"]
    /\ UNCHANGED <<rows, visitCountCache, pc, hv, flushLog, mark, visits, returned, crashed>>

\* for range ticker.C: the goroutine waits for the next tick
FlushWait ==
    /\ ~crashed
    /\ fl.pc = "done"
    /\ fl' = IdleFlush
    /\ flushLog' = << >>
    /\ mark' = Snapshot
    /\ UNCHANGED <<rows, visitCountCache, pc, hv, visits, returned, crashed>>

(***************************************************************************)
(* The unsynchronised map.  The Go runtime aborts the process ("concurrent *)
(* map writes", "concurrent map iteration and map write") when it catches  *)
(* two goroutines inside the map at once, one of them writing; whether it  *)
(* catches them is up to timing.                                           *)
(***************************************************************************)
MapWriters ==
    {h \in Handlers : pc[h] = "mapassign"}
        \cup (IF fl.pc = "reset" THEN {"ticker"} ELSE {})

MapReaders == IF fl.pc = "range" /\ fl.todo # {} THEN {"ticker"} ELSE {}

MapRaceFatal ==
    /\ ~crashed
    /\ MapWriters # {}
    /\ Cardinality(MapWriters \cup MapReaders) >= 2
    /\ crashed' = TRUE
    /\ UNCHANGED <<rows, visitCountCache, pc, hv, fl, flushLog, mark, visits, returned>>

(***************************************************************************)
(* Specifications.                                                         *)
(***************************************************************************)
\* nothing else is running: no handler is in a call and the flush is idle
Quiet == (\A h \in Handlers : pc[h] = "idle") /\ fl.pc = "idle"

Step ==
    \/ \E h \in Handlers : CreateGen(h)
    \/ \E h \in Handlers : CreateInsert(h)
    \/ \E h \in Handlers : RedirectMapAssign(h)
    \/ \E h \in Handlers : RedirectStore(h)
    \/ \E h \in Handlers : Respond(h)
    \/ FlushNext
    \/ FlushExec
    \/ FlushReset
    \/ FlushReturn
    \/ FlushWait

\* request goroutines and the ticker goroutine interleave freely
Next ==
    \/ \E h \in Handlers, u \in URLs : CreateCall(h, u)
    \/ \E h \in Handlers, c \in Codes : RedirectCall(h, c)
    \/ FlushStart
    \/ Step
    \/ MapRaceFatal

Spec == Init /\ [][Next]_vars

\* no two operations overlap: each call and each flush runs to its end
\* before the next begins
NextSeq ==
    \/ \E h \in Handlers, u \in URLs : Quiet /\ CreateCall(h, u)
    \/ \E h \in Handlers, c \in Codes : Quiet /\ RedirectCall(h, c)
    \/ Quiet /\ FlushStart
    \/ Step

SpecSeq == Init /\ [][NextSeq]_vars

\* concurrent create requests (forms that pass handleCreate's checks) on a
\* fresh database; no redirect request arrives and the cache stays empty
NextCreate ==
    \/ \E h \in Handlers, u \in URLs : CreateCall(h, u)
    \/ \E h \in Handlers : CreateGen(h)
    \/ \E h \in Handlers : CreateInsert(h)
    \/ \E h \in Handlers : Respond(h)

SpecCreate == Init /\ [][NextCreate]_vars

\* create requests of every kind, well-formed or not, served one at a time
\* on a fresh database
NextHTTP ==
    \/ \E h \in Handlers, req \in Requests :
          (\A g \in Handlers : pc[g] = "idle") /\ handleCreate(h, req)
    \/ \E h \in Handlers : CreateGen(h)
    \/ \E h \in Handlers : CreateInsert(h)
    \/ \E h \in Handlers : Respond(h)

SpecHTTP == Init /\ [][NextHTTP]_vars

\* concurrent redirects and the ticker's flush on a loaded database; no
\* create request arrives
NextVisit ==
    \/ \E h \in Handlers, c \in Codes : RedirectCall(h, c)
    \/ \E h \in Handlers : RedirectMapAssign(h)
    \/ \E h \in Handlers : RedirectStore(h)
    \/ \E h \in Handlers : Respond(h)
    \/ FlushStart
    \/ FlushNext
    \/ FlushExec
    \/ FlushReset
    \/ FlushReturn
    \/ FlushWait
    \/ MapRaceFatal

SpecVisit == InitLoaded /\ [][NextVisit]_vars

\* redirects served one at a time on a loaded database, each free to
\* interleave with the ticker's flush
NextFlush ==
    \/ \E h \in Handlers, c \in Codes :
          (\A g \in Handlers : pc[g] = "idle") /\ RedirectCall(h, c)
    \/ \E h \in Handlers : RedirectMapAssign(h)
    \/ \E h \in Handlers : RedirectStore(h)
    \/ \E h \in Handlers : Respond(h)
    \/ FlushStart
    \/ FlushNext
    \/ FlushExec
    \/ FlushReset
    \/ FlushReturn
    \/ FlushWait
    \/ MapRaceFatal

SpecFlush == InitLoaded /\ [][NextFlush]_vars

(***************************************************************************)
(* The claims.                                                             *)
(***************************************************************************)
\* every UPDATE of the flush in hand succeeded
AllUpdatesOK == \A i \in DOMAIN flushLog : flushLog[i].ok

\* record_visit calls for c since the previous flush returned
VisitsSinceFlush(c) == visits[c] - mark[c].n

\* C1: with no overlapping operation and every storage update succeeding,
\* when writeCacheToDB has run to completion each code's persisted
\* visit_count is exactly N above its value before, N being the
\* record_visit calls for that code since the previous flush, and the
\* code's pending count is 0.
C1_FlushAddsVisits ==
    fl.pc = "done" =>
        \A c \in Codes :
            (AllUpdatesOK /\ mark[c].pend = 0)
                => /\ VisitCount(c) = fl.vc0[c] + VisitsSinceFlush(c)
                   /\ Pending(c) = 0

\* a second flush, all updates succeeding, after two further visits of a code
C1_Witness ==
    /\ fl.pc = "done"
    /\ AllUpdatesOK
    /\ \E c \in Codes :
          /\ mark[c].n > 0
          /\ mark[c].pend = 0
          /\ VisitsSinceFlush(c) >= 2
          /\ VisitCount(c) = fl.vc0[c] + 2
          /\ fl.vc0[c] > 0

\* handler h holds what createShortURL returned to it
CreateReturned(h) == pc[h] = "respond" /\ hv[h].op = "create"

\* C2: when longURL already had a row with short code c at the call,
\* createShortURL leaves the table as it was (no row inserted) and, unless
\* the storage call itself failed, returns c with a nil error.
C2_ExistingURLReturnsItsCode ==
    \A h \in Handlers :
        (CreateReturned(h) /\ hv[h].had) =>
            /\ rows = hv[h].rows0
            /\ hv[h].inserted = 0
            /\ hv[h].err # ErrStorage =>
                  /\ hv[h].err = Nil
                  /\ \A i \in RowsOfURL(hv[h].longURL) :
                        hv[h].ret = rows[i].short_url

\* a repeated create of the first of two stored URLs returns its code
C2_Witness ==
    \E h \in Handlers :
        /\ CreateReturned(h) /\ hv[h].had /\ hv[h].err = Nil
        /\ Len(rows) = 2
        /\ rows[1].long_url = hv[h].longURL
        /\ hv[h].ret = rows[1].short_url
        /\ <<hv[h].ret, hv[h].longURL>> \in returned

\* C3: when longURL had no row at the call, a createShortURL that returns
\* a nil error returns a code of exactly cfg.ShortURL.Length characters, all
\* of the configured charset, and has inserted exactly one row, (code,
\* longURL), the only row with that code.
C3_NewURLGetsFreshCode ==
    \A h \in Handlers :
        (CreateReturned(h) /\ ~hv[h].had /\ hv[h].err = Nil) =>
            /\ Len(hv[h].ret) = Length
            /\ \A i \in DOMAIN hv[h].ret : hv[h].ret[i] \in Range(Charset)
            /\ hv[h].inserted = 1
            /\ \E i \in DOMAIN rows :
                  /\ i > Len(hv[h].rows0)
                  /\ rows[i].short_url = hv[h].ret
                  /\ rows[i].long_url = hv[h].longURL
                  /\ \A j \in DOMAIN rows : rows[j].short_url = hv[h].ret => j = i

\* a new URL is given a code after an earlier URL took another one
C3_Witness ==
    \E h \in Handlers :
        /\ CreateReturned(h) /\ ~hv[h].had /\ hv[h].err = Nil
        /\ Len(hv[h].rows0) >= 1
        /\ hv[h].inserted = 1
        /\ rows[Len(rows)].short_url = hv[h].ret

\* C4: a short code that createShortURL returned for long URL u is looked
\* up by getLongURL as u with a nil error (unless the storage call itself
\* fails), whatever creates, visits and flushes came in between.
C4_LookupReturnsCreatedURL ==
    \A h \in Handlers :
        hv[h].op = "redirect" =>
            \A u \in URLs :
                (<<hv[h].shortURL, u>> \in returned /\ hv[h].err # ErrStorage)
                    => (hv[h].err = Nil /\ hv[h].ret = u)

\* the second URL's code is looked up after visits of it were flushed
C4_Witness ==
    \E h \in Handlers :
        /\ hv[h].op = "redirect" /\ hv[h].err = Nil
        /\ <<hv[h].shortURL, hv[h].ret>> \in returned
        /\ Len(rows) = 2
        /\ rows[2].short_url = hv[h].shortURL
        /\ VisitCount(hv[h].shortURL) > 0

\* C5: getLongURL of a code that has no row yields sql.ErrNoRows and the
\* empty URL: it never returns a URL or a nil error, and only a failure of
\* the storage call itself is reported as another error.
C5_UnknownCodeIsNotFound ==
    /\ \A c \in Codes \ RowCodes :
          SelectLongByShort(c) = [val |-> NoURL, err |-> ErrNoRows]
    /\ \A h \in Handlers :
          (hv[h].op = "redirect" /\ hv[h].shortURL \notin RowCodes) =>
              /\ hv[h].ret = NoURL
              /\ hv[h].err \in {ErrNoRows, ErrStorage}
              /\ pc[h] = "respond"

\* an unknown code is looked up in a table that holds other codes
C5_Witness ==
    \E h \in Handlers :
        /\ hv[h].op = "redirect"
        /\ hv[h].shortURL \notin RowCodes
        /\ hv[h].err = ErrNoRows
        /\ rows # << >>

\* the UPDATE statements the flush in hand issued for key k
UpdatesFor(k) == {i \in DOMAIN flushLog : flushLog[i].key = k}

\* C6: a completed flush has issued one storage update for each tally entry
\* whose pending count was non-zero and none for an entry whose pending
\* count was 0 (so none at all for an empty or all-zero tally).
C6_NoUpdateForZeroEntries ==
    fl.pc = "done" =>
        /\ \A i \in DOMAIN flushLog : flushLog[i].count # 0
        /\ \A k \in DOMAIN visitCountCache :
              /\ Cardinality(UpdatesFor(k)) <= 1
              /\ UpdatesFor(k) = {} => visitCountCache[k] = 0

\* C7: under every interleaving of redirect handlers with the flush, no
\* increment is lost: outside the flush's update-then-reset of a code, its
\* persisted visit_count plus its pending count equals the record_visit
\* calls completed for it.
C7_NoIncrementLost ==
    \A c \in Codes :
        ~(fl.pc = "reset" /\ fl.key = c)
            => VisitCount(c) + Pending(c) = visits[c]

\* C8: an entry whose UPDATE failed keeps its pending count p and its
\* visit_count; when the next flush updates it successfully after k more
\* record_visit calls, visit_count has grown by exactly p + k and the
\* pending count is 0.
C8_FailedUpdateStaysPending ==
    /\ \A i \in DOMAIN flushLog :
          ~flushLog[i].ok =>
              /\ Pending(flushLog[i].key) = flushLog[i].count
              /\ VisitCount(flushLog[i].key) = fl.vc0[flushLog[i].key]
    /\ fl.pc = "done" =>
          \A i \in DOMAIN flushLog :
              LET c == flushLog[i].key IN
              (flushLog[i].ok /\ mark[c].pend > 0) =>
                  /\ VisitCount(c) = fl.vc0[c] + mark[c].pend + VisitsSinceFlush(c)
                  /\ Pending(c) = 0

\* a flush succeeds for a code whose update failed in the flush before and
\* which was visited again in between
C8_Witness ==
    /\ fl.pc = "done"
    /\ \E i \in DOMAIN flushLog :
          /\ flushLog[i].ok
          /\ mark[flushLog[i].key].pend > 0
          /\ VisitsSinceFlush(flushLog[i].key) > 0

\* C9: a failing UPDATE does not end the flush: every entry of the tally is
\* attempted, and each entry whose UPDATE succeeds has its count added to
\* visit_count and is reset to 0 in that same flush, in any iteration order
\* and whichever entries fail.
C9_FailureDoesNotStopFlush ==
    fl.pc = "done" =>
        /\ \A k \in DOMAIN visitCountCache : UpdatesFor(k) # {}
        /\ \A i \in DOMAIN flushLog :
              flushLog[i].ok =>
                  /\ Pending(flushLog[i].key) = 0
                  /\ VisitCount(flushLog[i].key)
                        = fl.vc0[flushLog[i].key] + flushLog[i].count

\* the first UPDATE of a flush failed and a later one, of a visited code,
\* succeeded
C9_Witness ==
    /\ fl.pc = "done"
    /\ Len(flushLog) = 2
    /\ ~flushLog[1].ok /\ flushLog[1].count > 0
    /\ flushLog[2].ok /\ flushLog[2].count > 0
    /\ VisitCount(flushLog[2].key) = flushLog[2].count

\* C10: with concurrent create requests no two rows ever share a
\* short_url, and a code createShortURL returns as newly inserted belongs to
\* no row of another long URL.
C10_ShortCodesUnique ==
    /\ \A i, j \in DOMAIN rows : rows[i].short_url = rows[j].short_url => i = j
    /\ \A h \in Handlers :
          (CreateReturned(h) /\ hv[h].err = Nil /\ hv[h].inserted = 1) =>
              \A i \in DOMAIN rows :
                  rows[i].short_url = hv[h].ret => rows[i].long_url = hv[h].longURL

\* two requests drew the same candidate and both saw it absent: one
\* inserted it, the other's INSERT was refused by the primary key
C10_Witness ==
    \E h \in Handlers :
        /\ CreateReturned(h)
        /\ hv[h].err = ErrConstraint
        /\ \E i \in DOMAIN rows :
              /\ rows[i].short_url = hv[h].shortURL
              /\ rows[i].long_url # hv[h].longURL

\* C11: when create calls do not overlap (each completes before the next
\* begins), every long URL has at most one row, hence at most one short code.
C11_OneRowPerLongURL ==
    \A u \in URLs : Cardinality(RowsOfURL(u)) <= 1

\* both URLs are stored and a repeated create of the second one has returned
\* without adding a row
C11_Witness ==
    /\ Len(rows) = 2
    /\ \E h \in Handlers :
          /\ CreateReturned(h) /\ hv[h].had /\ hv[h].err = Nil
          /\ rows[2].long_url = hv[h].longURL
          /\ hv[h].inserted = 0
          /\ rows[1].long_url # rows[2].long_url

\* long URL u owns two rows with distinct short codes
Duplicated(u) ==
    \E i, j \in RowsOfURL(u) : rows[i].short_url # rows[j].short_url

\* C12: two overlapping createShortURL calls for the same long URL, both
\* past a dedup lookup that found no row, each insert a row when their
\* INSERTs succeed: the URL then owns two distinct short codes, both were
\* returned to clients, and no later step removes either row.
C12_ConcurrentCreatesDuplicate ==
    /\ [](\A g, h \in Handlers :
            (/\ g # h
             /\ CreateReturned(g) /\ CreateReturned(h)
             /\ hv[g].longURL = hv[h].longURL
             /\ ~hv[g].had /\ ~hv[h].had
             /\ hv[g].err = Nil /\ hv[h].err = Nil)
                => /\ hv[g].ret # hv[h].ret
                   /\ Duplicated(hv[h].longURL)
                   /\ <<hv[g].ret, hv[g].longURL>> \in returned
                   /\ <<hv[h].ret, hv[h].longURL>> \in returned)
    /\ [][\A u \in URLs : Duplicated(u) => Duplicated(u)']_vars

\* both handlers' overlapping calls for the same new URL found no row, and
\* each has inserted and returned its own code
C12_Witness ==
    \E g, h \in Handlers :
        /\ g # h
        /\ CreateReturned(g) /\ CreateReturned(h)
        /\ hv[g].longURL = hv[h].longURL
        /\ ~hv[g].had /\ ~hv[h].had
        /\ hv[g].inserted = 1 /\ hv[h].inserted = 1
        /\ hv[g].ret # hv[h].ret
        /\ Cardinality(RowsOfURL(hv[h].longURL)) = 2

\* C13: when a storage call inside createShortURL fails (the dedup lookup
\* with an error other than sql.ErrNoRows, the existence check, or the
\* INSERT), the call returns at once with that error and the empty code: it
\* has inserted nothing, the failing step leaves the table as it was, and
\* the handler's only further step is its response, with no storage
\* operation and no retry.
C13_StorageErrorAborts ==
    /\ [](\A h \in Handlers :
            (hv[h].op = "create" /\ hv[h].err # Nil) =>
                /\ pc[h] = "respond"
                /\ hv[h].err \in {ErrStorage, ErrConstraint}
                /\ hv[h].ret = NoCode
                /\ hv[h].inserted = 0)
    /\ [][\A h \in Handlers :
            /\ (hv[h].err = Nil /\ hv[h]'.op = "create" /\ hv[h]'.err # Nil)
                  => rows' = rows
            /\ (hv[h].op = "create" /\ hv[h].err # Nil /\ pc[h]' # pc[h])
                  => (rows' = rows /\ pc[h]' = "idle")]_vars

\* the INSERT of a candidate that passed the existence check failed, in a
\* table that already holds a row
C13_Witness ==
    \E h \in Handlers :
        /\ CreateReturned(h)
        /\ hv[h].err = ErrStorage
        /\ hv[h].shortURL # NoCode
        /\ hv[h].ret = NoCode
        /\ Len(rows) >= 1

\* handler h takes a step of handleRedirect
RedirectStep(h) ==
    /\ pc[h]' # pc[h]
    /\ (hv[h].op = "redirect" \/ hv[h]'.op = "redirect")

UnknownCodeRedirect(h) ==
    hv[h].op = "redirect" /\ hv[h].shortURL \notin RowCodes

\* C15: a redirect request for a short code without a row is answered with
\* 302 Found and Location "/", and records no visit: the handler goes from
\* the lookup straight to its response, and none of its steps changes the
\* tally, the visits recorded or any row.
C15_UnknownCodeRedirectsHome ==
    /\ [](\A h \in Handlers :
            UnknownCodeRedirect(h) =>
                /\ pc[h] = "respond"
                /\ hv[h].status = 302
                /\ hv[h].location = "/")
    /\ [][\A h \in Handlers :
            (pc[h]' # pc[h] /\ (UnknownCodeRedirect(h) \/ UnknownCodeRedirect(h)'))
                => /\ visitCountCache' = visitCountCache
                   /\ visits' = visits
                   /\ rows' = rows]_vars

\* an unknown code is requested while visits of a known code are pending:
\* the client is sent home
C15_Witness ==
    \E h \in Handlers :
        /\ UnknownCodeRedirect(h)
        /\ hv[h].err = ErrNoRows
        /\ hv[h].status = 302 /\ hv[h].location = "/"
        /\ \E c \in RowCodes : Pending(c) > 0

\* the visit total of a code: persisted plus pending
VisitTotal(c) == VisitCount(c) + Pending(c)

\* C16: each successful redirect records exactly one visit, for its own
\* code: the step that completes visitCountCache[k]++ raises k's visit total
\* by exactly 1, no other step of a redirect changes any total, and the
\* totals of the other codes stay as they are.
C16_OneVisitPerRedirect ==
    [][\A h \in Handlers :
          RedirectStep(h) =>
              \A c \in Codes :
                  VisitTotal(c)' =
                      IF pc[h] = "store" /\ c = hv[h].shortURL
                      THEN VisitTotal(c) + 1
                      ELSE VisitTotal(c)]_vars

\* C17: a storage failure other than sql.ErrNoRows that reaches a handler,
\* from createShortURL in handleCreate or from getLongURL in handleRedirect,
\* is answered with a server error (status 500).
C17_StorageErrorIsServerError ==
    \A h \in Handlers :
        (pc[h] = "respond" /\ hv[h].err \notin {Nil, ErrNoRows})
            => hv[h].status = 500

\* the request meets every condition handleCreate sets for calling
\* createShortURL
ValidRequest(req) ==
    /\ req.method = "POST"
    /\ req.contentType = FormContentType
    /\ ParseRequestURI(req.url) = Nil
    /\ Shape(req.url).chars <= MaxURLLen

\* C18: handleCreate calls createShortURL only for a POST with Content-Type
\* application/x-www-form-urlencoded whose url value parses as a request
\* URI and has at most 2048 characters, and with that value; any other
\* request is answered at once, a non-POST with a redirect to "/" and the
\* others with 400, and no step of a rejected request changes the table.
C18_OnlyValidRequestsCreate ==
    /\ [](\A h \in Handlers :
            /\ hv[h].op = "create" =>
                  (ValidRequest(hv[h].req) /\ hv[h].longURL = hv[h].req.url)
            /\ hv[h].op = "rejected" =>
                  /\ pc[h] = "respond"
                  /\ IF hv[h].req.method # "POST"
                     THEN hv[h].status = 302 /\ hv[h].location = "/"
                     ELSE hv[h].status = 400
            /\ (hv[h].route = "/create" /\ ~ValidRequest(hv[h].req))
                  => hv[h].op = "rejected")
    /\ [](\A i \in DOMAIN rows :
            /\ ParseRequestURI(rows[i].long_url) = Nil
            /\ Shape(rows[i].long_url).chars <= MaxURLLen)
    /\ [][\A h \in Handlers :
            (hv[h].op = "rejected" \/ hv[h]'.op = "rejected")
                => (rows' = rows /\ returned' = returned)]_vars

\* with one URL stored, a POST of a URL one byte over the limit is answered
\* with 400
C18_Witness ==
    \E h \in Handlers :
        /\ hv[h].op = "rejected"
        /\ hv[h].req = FormRequest("u-long")
        /\ hv[h].status = 400
        /\ Len(rows) = 1

\* C19: the persisted visit_count of every code is a non-negative integer
\* and no step of createShortURL, getLongURL, the tally increment or
\* writeCacheToDB lowers it.
C19_VisitCountNeverDecreases ==
    /\ [](\A i \in DOMAIN rows : rows[i].visit_count \in Nat)
    /\ [][\A c \in Codes : VisitCount(c)' >= VisitCount(c)]_vars

\* a third flush is adding to a visit_count that two earlier flushes raised
C19_Witness ==
    /\ fl.pc = "reset"
    /\ fl.vc0[fl.key] = 2
    /\ VisitCount(fl.key) = 3

----------------------------------------------------------------------------
(* A crowded table: createShortURL when the code space is (nearly) used up *)

\* the elements of a finite set in some fixed order
RECURSIVE SeqOf(_)
SeqOf(S) ==
    IF S = {} THEN << >>
    ELSE LET x == CHOOSE y \in S : TRUE IN <<x>> \o SeqOf(S \ {x})

\* a url_mapping table left by earlier runs: one row for each code of S, all
\* of them for the long URL u
TableOf(S, u) ==
    [i \in 1..Cardinality(S) |->
        [short_url |-> SeqOf(S)[i], long_url |-> u,
         visit_count |-> 0, created_at |-> 0]]

\* every code of the configured space has a row
TableFull == Codes \subseteq RowCodes

\* the process starts on a database in which every code of the space, or
\* every code but one, is already taken by rows of one long URL
InitCrowded ==
    /\ \E u \in URLs :
         rows \in {TableOf(Codes, u)} \cup {TableOf(Codes \ {c}, u) : c \in Codes}
    /\ visitCountCache = [c \in {} |-> 0]
    /\ pc = [h \in Handlers |-> "idle"]
    /\ hv = [h \in Handlers |-> IdleLocals]
    /\ fl = IdleFlush
    /\ flushLog = << >>
    /\ visits = [c \in Codes |-> 0]
    /\ mark = [c \in Codes |-> [n |-> 0, pend |-> 0]]
    /\ returned = {}
    /\ crashed = FALSE

\* concurrent create requests on a crowded database
SpecCrowded == InitCrowded /\ [][NextCreate]_vars

\* C21: while every code of the space has a row, a createShortURL call that
\* is in its retry loop leaves the loop only by a storage failure of the
\* existence check: every other step of the call draws a candidate that is
\* taken and keeps the call in the loop, with no attempt count and no
\* exhaustion error, so with working storage it returns neither a code nor
\* an error
C21_FullTableLoopsForever ==
    [][\A h \in Handlers :
          (pc[h] = "gen" /\ TableFull) =>
              \/ pc'[h] = "gen" /\ hv'[h] = hv[h]
              \/ /\ pc'[h] = "respond"
                 /\ hv'[h].err = ErrStorage
                 /\ hv'[h].ret = NoCode]_vars

\* a call for a long URL without a row is in its loop on a table that was
\* already full when the call began
C21_Witness ==
    \E h \in Handlers :
        /\ pc[h] = "gen"
        /\ hv[h].op = "create"
        /\ ~hv[h].had
        /\ RowsOfURL(hv[h].longURL) = {}
        /\ Codes \subseteq {hv[h].rows0[i].short_url : i \in 1..Len(hv[h].rows0)}
        /\ TableFull

\* the draw of a candidate that has no row yet
CreateGenFresh(h) == CreateGen(h) /\ pc'[h] = "insert"

\* the scheduler runs every goroutine that can take a step, and the random
\* generator is fair: a call that stays in the loop while some code is
\* free eventually draws a free code
SpecCrowdedFair ==
    /\ InitCrowded
    /\ [][NextCreate]_vars
    /\ \A h \in Handlers : WF_vars(CreateGenFresh(h))
    /\ \A h \in Handlers : WF_vars(CreateInsert(h))

\* C22: with a fair generator, a createShortURL call in its loop eventually
\* returns while a code of the space is free: it ends with a code, or with
\* the error of a failed storage call; it can stay in the loop only once
\* other calls have taken every free code
C22_FreeCodeIsFound ==
    \A h \in Handlers :
        (pc[h] = "gen") ~>
            \/ /\ pc[h] = "respond"
               /\ \/ hv[h].err = Nil /\ hv[h].ret \in Codes
                  \/ hv[h].err \in {ErrStorage, ErrConstraint}
            \/ TableFull

\* a call that found no row for its long URL has returned the one code
\* that was free on a table in which every other code was taken
C22_Witness ==
    \E h \in Handlers :
        /\ CreateReturned(h)
        /\ ~hv[h].had
        /\ hv[h].err = Nil
        /\ Len(hv[h].rows0) = Cardinality(Codes) - 1
        /\ hv[h].ret \in Codes \ {hv[h].rows0[i].short_url : i \in 1..Len(hv[h].rows0)}
        /\ TableFull

\* C23: a createShortURL call that finds rows for its long URL returns the
\* short code of the row among them that was inserted first (no row of that
\* long URL has an earlier created_at), whatever number of rows the long
\* URL has; two such calls for one long URL return the same code.
C23_FirstRowAnswers ==
    /\ \A h \in Handlers :
          (CreateReturned(h) /\ hv[h].had /\ hv[h].err = Nil) =>
              \E i \in RowsOfURL(hv[h].longURL) :
                  /\ rows[i].short_url = hv[h].ret
                  /\ \A k \in RowsOfURL(hv[h].longURL) :
                        rows[i].created_at <= rows[k].created_at
    /\ \A h, g \in Handlers :
          (/\ CreateReturned(h) /\ hv[h].had /\ hv[h].err = Nil
           /\ CreateReturned(g) /\ hv[g].had /\ hv[g].err = Nil
           /\ hv[h].longURL = hv[g].longURL) => hv[h].ret = hv[g].ret

\* both handlers were asked for a long URL that had two rows at the call
\* and answered with the code of the older row
C23_Witness ==
    \A h \in Handlers :
        /\ CreateReturned(h)
        /\ hv[h].had
        /\ hv[h].err = Nil
        /\ hv[h].longURL = "u1"
        /\ Cardinality({i \in 1..Len(hv[h].rows0) : hv[h].rows0[i].long_url = "u1"}) = 2
        /\ hv[h].ret = rows[1].short_url

----------------------------------------------------------------------------
(* Rows removed behind the program's back *)

\* another client of the database file deletes the row of c (the program
\* itself has no DELETE)
RowDeletedOutOfBand(c) ==
    /\ ~crashed
    /\ c \in RowCodes
    /\ rows' = SelectSeq(rows, LAMBDA r : r.short_url # c)
    /\ UNCHANGED <<visitCountCache, pc, hv, fl, flushLog, mark, visits, returned, crashed>>

\* redirects and flushes one after another on a loaded database, and
\* between them rows that vanish out-of-band
NextOutOfBand ==
    \/ \E h \in Handlers, c \in Codes : Quiet /\ RedirectCall(h, c)
    \/ \E c \in Codes : Quiet /\ RowDeletedOutOfBand(c)
    \/ Quiet /\ FlushStart
    \/ \E h \in Handlers : RedirectMapAssign(h)
    \/ \E h \in Handlers : RedirectStore(h)
    \/ \E h \in Handlers : Respond(h)
    \/ FlushNext
    \/ FlushExec
    \/ FlushReset
    \/ FlushReturn
    \/ FlushWait

SpecOutOfBand == InitLoaded /\ [][NextOutOfBand]_vars

\* C24: when the flush's UPDATE for a code without a row succeeds, the table
\* is left as it was (no row is created, none changed) and the flush goes on
\* to reset the entry; the reset leaves the entry at 0, so the visits it
\* held are in no row and in no entry, and a later flush has nothing of
\* them to add.
C24_VisitsOfMissingRowAreDropped ==
    [][/\ (fl.pc = "exec" /\ fl.key \notin RowCodes /\ fl'.pc # "exec") =>
             /\ rows' = rows
             /\ (flushLog'[Len(flushLog')].ok => fl'.pc = "reset")
       /\ (fl.pc = "reset" /\ fl.key \notin RowCodes /\ fl'.pc # "reset") =>
             /\ rows' = rows
             /\ fl.key \in DOMAIN visitCountCache'
             /\ visitCountCache'[fl.key] = 0
       /\ \A c \in Codes :
             (c \notin RowCodes /\ Pending(c) = 0) => Pending(c)' = 0]_vars

\* a flush has ended whose UPDATE for a deleted code succeeded with a
\* count above 0: the code still has no row and its entry is 0
C24_Witness ==
    /\ fl.pc = "done"
    /\ \E i \in 1..Len(flushLog) :
          /\ flushLog[i].ok
          /\ flushLog[i].count > 0
          /\ flushLog[i].key \notin RowCodes
          /\ Pending(flushLog[i].key) = 0
          /\ visits[flushLog[i].key] > 0
    /\ Len(rows) = Len(LoadedRows) - 1

----------------------------------------------------------------------------
(* The ticker: writeCacheToDB runs again and again *)

\* the flush's UPDATE for code c succeeds
FlushExecOK(c) == FlushExec /\ fl.key = c /\ fl'.pc = "reset"

\* the ticker fires for as long as the process runs and the ticker
\* goroutine and the request goroutines are scheduled; the UPDATE for each
\* code succeeds again and again
TickerFairness ==
    /\ WF_vars(FlushStart)
    /\ WF_vars(FlushNext)
    /\ WF_vars(FlushReset)
    /\ WF_vars(FlushReturn)
    /\ WF_vars(FlushWait)
    /\ \A c \in Codes : SF_vars(FlushExecOK(c))
    /\ \A h \in Handlers : WF_vars(RedirectMapAssign(h))
    /\ \A h \in Handlers : WF_vars(RedirectStore(h))
    /\ \A h \in Handlers : WF_vars(Respond(h))

SpecTicker == InitLoaded /\ [][NextFlush]_vars /\ TickerFairness

\* C25: whenever the entry of code c holds a count above 0, the visits
\* recorded for c up to then (n of them) are later all part of the row's
\* visit_count, unless the process has died.
C25_PendingVisitsReachTheRow ==
    \A c \in Codes : \A n \in 1..MaxVisits :
        (Pending(c) > 0 /\ visits[c] = n) ~> (VisitCount(c) >= n \/ crashed)

----------------------------------------------------------------------------
(* randomString on its own, for any length *)

\* randomString(length), called as TestRandomString calls it: rand.Read
\* fills b, the result is kept in shortURL
RandomStringCall(h, length, b) ==
    /\ ~crashed
    /\ pc[h] = "idle"
    /\ pc' = [pc EXCEPT ![h] = "respond"]
    /\ hv' = [hv EXCEPT ![h] = [IdleLocals EXCEPT !.op = "randomString",
                                   !.length = length, !.b = b,
                                   !.shortURL = randomString(length, b)]]
    /\ UNCHANGED <<rows, visitCountCache, fl, flushLog, mark, visits, returned, crashed>>

NextRandom ==
    \/ \E h \in Handlers, length \in 0..MaxLen :
          \E b \in ByteSeqs(length) : RandomStringCall(h, length, b)
    \/ \E h \in Handlers : Respond(h)

SpecRandom == Init /\ [][NextRandom]_vars

\* C26: the string randomString(length) returns has exactly length
\* characters, the i-th being the character of the charset at index
\* b[i] mod n (n the number of characters of the charset, indices from 0),
\* so every character of it is in the charset; for length 0 it is empty.
C26_RandomStringShape ==
    \A h \in Handlers :
        (pc[h] = "respond" /\ hv[h].op = "randomString") =>
            /\ Len(hv[h].shortURL) = hv[h].length
            /\ \A i \in 1..hv[h].length :
                  /\ hv[h].shortURL[i] = Charset[(hv[h].b[i] % Len(Charset)) + 1]
                  /\ hv[h].shortURL[i] \in Range(Charset)

\* one call returned the empty string for length 0, another a string of
\* MaxLen characters in which a byte beyond the charset's length wrapped
C26_Witness ==
    \E h, g \in Handlers :
        /\ pc[h] = "respond" /\ hv[h].op = "randomString"
        /\ hv[h].length = 0 /\ hv[h].shortURL = << >>
        /\ pc[g] = "respond" /\ hv[g].op = "randomString"
        /\ hv[g].length = MaxLen /\ Len(hv[g].shortURL) = MaxLen
        /\ \E i \in 1..MaxLen : hv[g].b[i] >= Len(Charset)

----------------------------------------------------------------------------
(* getStats, called by handleStats on a request goroutine *)

\* the number of links each list of the statistics page shows
StatsLimit == 10

min(a, b) == IF a < b THEN a ELSE b

\* the sequences that hold the elements of a, each once, in some order
Arrangements(a) ==
    {[i \in 1..Len(a) |-> a[p[i]]] :
        p \in {q \in [1..Len(a) -> 1..Len(a)] :
                  \A i, j \in 1..Len(a) : i # j => q[i] # q[j]}}

\* SELECT ... FROM url_mapping ORDER BY visit_count DESC: the rows by
\* falling visit_count, rows of equal count in an order SQL leaves open
SelectAllByVisitCount ==
    {s \in Arrangements(rows) :
        \A i \in 1..(Len(s) - 1) : s[i].visit_count >= s[i + 1].visit_count}

\* sort.Slice(allLinks, CreatedAt.After): the elements by falling creation
\* time; the sort is not stable, equal times end in any order
SortByCreatedAt(allLinks) ==
    {s \in Arrangements(allLinks) :
        \A i \in 1..(Len(s) - 1) : s[i].created_at >= s[i + 1].created_at}

\* SELECT COALESCE(SUM(visit_count), 0) over the rows with the given indices
SumVisitCount(S) == SumOver([i \in DOMAIN rows |-> rows[i].visit_count], S)

\* getStats: three aggregate queries, the query of all links, then the three
\* lists.  PopularLinks and MostClickedLinks are slices allLinks[:k] taken
\* before sort.Slice reorders allLinks in place; a slice shares the array it
\* was cut from, so in the value returned each of them reads the first k
\* elements of the array as the sort left it, as RecentLinks does.  Any
\* query, the scan of a row or time.Parse of created_at may fail; getStats
\* then returns the error.
getStats(h) ==
    /\ ~crashed
    /\ pc[h] = "idle"
    /\ pc' = [pc EXCEPT ![h] = "respond"]
    /\ \/ hv' = [hv EXCEPT ![h] = [IdleLocals EXCEPT !.op = "stats", !.route = "/stats",
                                      !.err = ErrStorage, !.status = 500]]
       \/ \E allLinks \in SelectAllByVisitCount :
            \E sorted \in SortByCreatedAt(allLinks) :
              \E status \in {200, 500} :
                LET k == min(StatsLimit, Len(allLinks))
                    array == sorted
                IN  hv' = [hv EXCEPT ![h] = [IdleLocals EXCEPT
                        !.op = "stats", !.route = "/stats", !.status = status,
                        !.stats = [TotalLinks |-> Len(rows),
                                   TotalClicks |-> SumVisitCount(DOMAIN rows),
                                   ClicksToday |-> SumVisitCount({i \in DOMAIN rows :
                                                        rows[i].created_at > 0}),
                                   PopularLinks |-> SubSeq(array, 1, k),
                                   MostClickedLinks |-> SubSeq(array, 1, k),
                                   RecentLinks |-> SubSeq(array, 1, k)]]]
    /\ UNCHANGED <<rows, visitCountCache, fl, flushLog, mark, visits, returned, crashed>>

\* create, redirect and statistics requests and flushes, one after another
NextStats ==
    \/ NextSeq
    \/ \E h \in Handlers : Quiet /\ getStats(h)

SpecStats == Init /\ [][NextStats]_vars

\* list holds k rows of the table, each once
RowsListed(list, k) ==
    /\ Len(list) = k
    /\ \A i \in 1..k : \E j \in DOMAIN rows : rows[j] = list[i]
    /\ \A i, j \in 1..k : i # j => list[i] # list[j]

\* list is the first k of the rows in falling order of visit_count: it is
\* in that order and no row left out has more visits than one of it
TopByVisitCount(list, k) ==
    /\ RowsListed(list, k)
    /\ \A i \in 1..(k - 1) : list[i].visit_count >= list[i + 1].visit_count
    /\ \A j \in DOMAIN rows :
          (\A i \in 1..k : list[i] # rows[j]) =>
              \A i \in 1..k : list[i].visit_count >= rows[j].visit_count

\* list is the first k of the rows in falling order of creation time
TopByCreatedAt(list, k) ==
    /\ RowsListed(list, k)
    /\ \A i \in 1..(k - 1) : list[i].created_at >= list[i + 1].created_at
    /\ \A j \in DOMAIN rows :
          (\A i \in 1..k : list[i] # rows[j]) =>
              \A i \in 1..k : list[i].created_at >= rows[j].created_at

\* C27: in the Stats value a successful getStats returns, PopularLinks and
\* MostClickedLinks are each the first min(10, n) of the n rows by falling
\* visit_count, and RecentLinks the first min(10, n) rows by falling
\* creation time.
C27_StatsListsKeepTheirOrder ==
    \A h \in Handlers :
        (pc[h] = "respond" /\ hv[h].op = "stats" /\ hv[h].err = Nil) =>
            LET k == min(StatsLimit, Len(rows))
            IN  /\ TopByVisitCount(hv[h].stats.PopularLinks, k)
                /\ TopByVisitCount(hv[h].stats.MostClickedLinks, k)
                /\ TopByCreatedAt(hv[h].stats.RecentLinks, k)

\* C28: the visit_count persisted for a code never exceeds the number of
\* redirects served for it: those whose increment is done, plus those that
\* have found the row and are about to count.
C28_NoOverCounting ==
    \A c \in Codes :
        VisitCount(c) <=
            visits[c] + Cardinality({h \in Handlers :
                            /\ pc[h] \in {"mapassign", "store"}
                            /\ hv[h].shortURL = c})

\* C29: of two createShortURL calls that went to their INSERT with the same
\* candidate (each saw it absent) and whose INSERT did not fail for another
\* reason, exactly one inserted the row and returned the code; the other
\* returned the primary-key error with no code, inserted nothing and still
\* holds the refused candidate (it drew no other); the table has one row for
\* the code, with the long URL of the call that inserted it.
C29_SameCandidateOneInsert ==
    /\ \A h, g \in Handlers :
          (/\ h # g
           /\ CreateReturned(h) /\ CreateReturned(g)
           /\ hv[h].shortURL # NoCode
           /\ hv[h].shortURL = hv[g].shortURL
           /\ hv[h].err # ErrStorage /\ hv[g].err # ErrStorage) =>
              \E w, l \in {h, g} :
                  /\ w # l
                  /\ hv[w].err = Nil /\ hv[w].ret = hv[w].shortURL /\ hv[w].inserted = 1
                  /\ hv[l].err = ErrConstraint /\ hv[l].ret = NoCode /\ hv[l].inserted = 0
                  /\ \A i \in DOMAIN rows :
                        rows[i].short_url = hv[w].shortURL =>
                            rows[i].long_url = hv[w].longURL
                  /\ Cardinality({i \in DOMAIN rows :
                                     rows[i].short_url = hv[w].shortURL}) = 1
    /\ \A h \in Handlers :
          (CreateReturned(h) /\ hv[h].err = ErrConstraint) =>
              /\ hv[h].shortURL \in RowCodes
              /\ hv[h].ret = NoCode
              /\ hv[h].inserted = 0
              /\ Len(rows) > Len(hv[h].rows0)

\* two calls for different long URLs drew the same candidate: one holds
\* the code, the other the primary-key error, and the row has the long URL
\* of the first
C29_Witness ==
    \E h, g \in Handlers :
        /\ CreateReturned(h) /\ CreateReturned(g)
        /\ hv[h].longURL # hv[g].longURL
        /\ hv[h].shortURL = hv[g].shortURL
        /\ hv[h].err = Nil /\ hv[h].ret = hv[h].shortURL
        /\ hv[g].err = ErrConstraint /\ hv[g].ret = NoCode
        /\ rows[RowOfCode(hv[h].shortURL)].long_url = hv[h].longURL

\* C30: every key of visitCountCache is the short_url of a row: an entry is
\* created or written only by a handler whose getLongURL found the row, and
\* no row is ever removed.
C30_CacheKeysHaveRows ==
    /\ DOMAIN visitCountCache \subseteq RowCodes
    /\ \A h \in Handlers :
          pc[h] \in {"mapassign", "store"} => hv[h].shortURL \in RowCodes
    /\ fl.todo \subseteq RowCodes

\* the cache holds an entry for each of two codes, one of them counted and
\* one reset by a flush, while a redirect of an unknown code has been
\* answered and left no entry
C30_Witness ==
    /\ Cardinality(DOMAIN visitCountCache) = 2
    /\ \E c \in DOMAIN visitCountCache : visitCountCache[c] > 0
    /\ \E c \in DOMAIN visitCountCache : visitCountCache[c] = 0 /\ VisitCount(c) > 0
    /\ \E h \in Handlers :
          /\ pc[h] = "respond" /\ hv[h].op = "redirect"
          /\ hv[h].err = ErrNoRows
          /\ hv[h].shortURL \notin DOMAIN visitCountCache

----------------------------------------------------------------------------
(* randomString under any configured charset *)

\* the number of values of Go's byte (uint8)
ByteModulus == 256

\* byte(x): the conversion of an int keeps its low 8 bits
byte(x) == x % ByteModulus

\* the runtime panic of an integer division by zero
PanicDivide == "panic: runtime error: integer divide by zero"

\* a charset of n distinct characters, each named by its position from 0
CharsetOfLen(n) == [i \in 1..n |-> i - 1]

\* the charsets tried: short ones, and those whose length is around the
\* number of values of a byte
Charsets ==
    {CharsetOfLen(n) : n \in {1, 2} \cup ((ByteModulus - 1)..MaxCharsetLen)}

\* b % byte(len(charset)): the division panics when the divisor is 0,
\* otherwise val is the index (from 0) of the character the byte selects
charsetIndex(charset, b) ==
    IF byte(Len(charset)) = 0
    THEN [val |-> 0, err |-> PanicDivide]
    ELSE [val |-> b % byte(Len(charset)), err |-> Nil]

\* randomString(length) with cfg.ShortURL.Charset = charset and the bytes b
\* from rand.Read: the loop body runs once per byte, the first division by
\* zero panics
randomStringOf(charset, length, b) ==
    IF \E i \in 1..length : charsetIndex(charset, b[i]).err # Nil
    THEN [val |-> NoCode, err |-> PanicDivide]
    ELSE [val |-> [i \in 1..length |-> charset[charsetIndex(charset, b[i]).val + 1]],
          err |-> Nil]

\* randomString(1) called under a configuration with the given charset; b
\* is the byte rand.Read yields, any of a byte's values.  A panic ends the
\* goroutine's call (net/http recovers it and drops the connection).
RandomStringUnder(h, charset, b) ==
    /\ ~crashed
    /\ pc[h] = "idle"
    /\ pc' = [pc EXCEPT ![h] = "respond"]
    /\ LET s == randomStringOf(charset, 1, <<b>>) IN
         hv' = [hv EXCEPT ![h] = [IdleLocals EXCEPT !.op = "randomString",
                    !.charset = charset, !.length = 1, !.b = <<b>>,
                    !.shortURL = s.val, !.err = s.err]]
    /\ UNCHANGED <<rows, visitCountCache, fl, flushLog, mark, visits, returned, crashed>>

\* randomString called under one charset after another, one call at a time
NextCharset ==
    \/ \E h \in Handlers, charset \in Charsets, b \in 0..(ByteModulus - 1) :
          (\A g \in Handlers : pc[g] = "idle") /\ RandomStringUnder(h, charset, b)
    \/ \E h \in Handlers : Respond(h)

SpecCharset == Init /\ [][NextCharset]_vars

\* C31: under every non-empty charset, randomString does not fail, the
\* character it returns for a byte is a character of the charset, and every
\* character of the charset is the one selected for some byte.
C31_EveryCharsetWorks ==
    \A h \in Handlers :
        (pc[h] = "respond" /\ hv[h].op = "randomString" /\ hv[h].charset # << >>) =>
            /\ hv[h].err = Nil
            /\ Len(hv[h].shortURL) = hv[h].length
            /\ \A i \in 1..hv[h].length : hv[h].shortURL[i] \in Range(hv[h].charset)
            /\ \A j \in 1..Len(hv[h].charset) :
                  \E b \in 0..(ByteModulus - 1) :
                      /\ charsetIndex(hv[h].charset, b).err = Nil
                      /\ charsetIndex(hv[h].charset, b).val = j - 1

====
